---- MODULE Spec2Model ----
(***************************************************************************)
(* A model of pint-glass: the ambient unit system and the conversion cache *)
(* kept in context variables (context.py), the dimension registry          *)
(* (dimensions.py), the conversion engine (core.py) and the Input/Output   *)
(* field hooks (fields.py).                                                *)
(*                                                                         *)
(* Strings the code transforms (system keys, dimension keys) are sequences *)
(* of one-character strings, so that lower() and replace() act on them     *)
(* character by character.  Unit strings, which the code only passes on,   *)
(* are plain strings.  A float is a fixed-point integer counting           *)
(* 1/SCALE-ths.                                                            *)
(***************************************************************************)
EXTENDS Integers, Sequences, FiniteSets, TLC

(***************************************************************************)
(* Bounds of the model.                                                    *)
(***************************************************************************)
MaxChains == 2
MaxTokens == 2
MaxDicts == 3

Chains == 1..MaxChains

(***************************************************************************)
(* Strings.                                                                *)
(***************************************************************************)
UpperAlpha ==
    <<"A","B","C","D","E","F","G","H","I","J","K","L","M",
      "N","O","P","Q","R","S","T","U","V","W","X","Y","Z">>

LowerAlpha ==
    <<"a","b","c","d","e","f","g","h","i","j","k","l","m",
      "n","o","p","q","r","s","t","u","v","w","x","y","z">>

LowerOf ==
    [u \in {UpperAlpha[i] : i \in 1..Len(UpperAlpha)} |->
        LowerAlpha[CHOOSE i \in 1..Len(UpperAlpha) : UpperAlpha[i] = u]]

LowerChar(ch) == IF ch \in DOMAIN LowerOf THEN LowerOf[ch] ELSE ch

\* str.lower()
Lower(s) == [i \in 1..Len(s) |-> LowerChar(s[i])]

\* str.replace(old, new) for one-character old and new
Replace(s, old, new) == [i \in 1..Len(s) |-> IF s[i] = old THEN new ELSE s[i]]

\* the system keys, as character sequences
K_imperial == <<"i","m","p","e","r","i","a","l">>
K_si == <<"s","i">>
K_cgs == <<"c","g","s">>
K_us == <<"u","s">>
K_engg_si == <<"e","n","g","g","_","s","i">>
K_engg_field == <<"e","n","g","g","_","f","i","e","l","d">>

\* strings that are no system key of any table
K_SI == <<"S","I">>
K_bogus == <<"b","o","g","u","s">>

(***************************************************************************)
(* context.py: the module constants.                                       *)
(***************************************************************************)
SUPPORTED_SYSTEMS == {K_imperial, K_si}

CONTEXT_DEFAULT_SYSTEM == K_imperial

(***************************************************************************)
(* dimensions.py: the module constants and the registry.                   *)
(***************************************************************************)
\* the keys of the UnitMapping TypedDict, in declaration order
UnitMapping == <<K_imperial, K_si, K_cgs, K_us, K_engg_si, K_engg_field>>

UNIT_SYSTEMS == {UnitMapping[i] : i \in 1..Len(UnitMapping)}

\* pint_glass.DEFAULT_SYSTEM, the name the package exports (__init__.py)
DEFAULT_SYSTEM == K_engg_si

BASE_SYSTEM == K_si

\* dimension keys, as character sequences
D_pressure == <<"p","r","e","s","s","u","r","e">>
D_length == <<"l","e","n","g","t","h">>
D_temperature == <<"t","e","m","p","e","r","a","t","u","r","e">>
D_mass == <<"m","a","s","s">>
D_time == <<"t","i","m","e">>
D_mass_flow_rate == <<"m","a","s","s","_","f","l","o","w","_","r","a","t","e">>

\* strings that are no dimension key
D_Length == <<"L","e","n","g","t","h">>
D_unknown_dim == <<"u","n","k","n","o","w","n","_","d","i","m">>

\* one row of the table: system key -> unit string
UnitRow(imperial, si, cgs, us, engg_si, engg_field) ==
    (K_imperial :> imperial) @@ (K_si :> si) @@ (K_cgs :> cgs) @@ (K_us :> us)
        @@ (K_engg_si :> engg_si) @@ (K_engg_field :> engg_field)

\* the rows of _TARGET_DIMENSIONS_RAW the model carries, in the table's order
RegistryOrder ==
    <<D_pressure, D_length, D_temperature, D_mass, D_time, D_mass_flow_rate>>

TARGET_DIMENSIONS_RAW ==
    (D_pressure :> UnitRow("psi", "pascal", "barye", "psi", "bar", "psi"))
    @@ (D_length :> UnitRow("foot", "meter", "centimeter", "foot", "meter", "foot"))
    @@ (D_temperature :> UnitRow("degF", "kelvin", "degC", "degF", "degC", "degF"))
    @@ (D_mass :> UnitRow("pound", "kilogram", "gram", "pound", "kilogram", "pound"))
    @@ (D_time :> UnitRow("second", "second", "second", "second", "second", "second"))
    @@ (D_mass_flow_rate :>
            UnitRow("pound / second", "kilogram / second", "gram / second",
                    "pound / second", "kilogram / hour", "pound / hour"))

\* the system keys every row of the table defines
RegistrySystemKeys ==
    {s \in UNION {DOMAIN TARGET_DIMENSIONS_RAW[d] : d \in DOMAIN TARGET_DIMENSIONS_RAW} :
        \A d \in DOMAIN TARGET_DIMENSIONS_RAW : s \in DOMAIN TARGET_DIMENSIONS_RAW[d]}

(***************************************************************************)
(* Floats and the unit library (pint).  A float x is the integer          *)
(* x * SCALE, rounded.  A unit is a linear map to the root unit of its     *)
(* dimensionality: root = value * num / den + off.                         *)
(***************************************************************************)
SCALE == 1000

Float(n) == n * SCALE

\* a / b rounded to the nearest integer, b > 0
RoundDiv(a, b) == (2 * a + b) \div (2 * b)

\* v * num / den, rounded, without forming v * num
MulDiv(v, num, den) == (v \div den) * num + RoundDiv((v % den) * num, den)

PintUnit(dim, num, den, off) == [dim |-> dim, num |-> num, den |-> den, off |-> off]

\* the units of the default pint registry that the modelled rows name
PintUnits ==
    ("pascal" :> PintUnit("pressure", 1, 1, 0))
    @@ ("psi" :> PintUnit("pressure", 689476, 100, 0))
    @@ ("barye" :> PintUnit("pressure", 1, 10, 0))
    @@ ("bar" :> PintUnit("pressure", 100000, 1, 0))
    @@ ("meter" :> PintUnit("length", 1, 1, 0))
    @@ ("foot" :> PintUnit("length", 381, 1250, 0))
    @@ ("centimeter" :> PintUnit("length", 1, 100, 0))
    @@ ("kelvin" :> PintUnit("temperature", 1, 1, 0))
    @@ ("degC" :> PintUnit("temperature", 1, 1, 273150))
    @@ ("degF" :> PintUnit("temperature", 5, 9, 255372))
    @@ ("kilogram" :> PintUnit("mass", 1, 1, 0))
    @@ ("pound" :> PintUnit("mass", 4536, 10000, 0))
    @@ ("gram" :> PintUnit("mass", 1, 1000, 0))
    @@ ("second" :> PintUnit("time", 1, 1, 0))
    @@ ("kilogram / second" :> PintUnit("mass/time", 1, 1, 0))
    @@ ("pound / second" :> PintUnit("mass/time", 4536, 10000, 0))
    @@ ("gram / second" :> PintUnit("mass/time", 1, 1000, 0))
    @@ ("kilogram / hour" :> PintUnit("mass/time", 1, 3600, 0))
    @@ ("pound / hour" :> PintUnit("mass/time", 126, 1000000, 0))

\* what a call returns or raises
Ok(v) == [ok |-> TRUE, val |-> v]
Raise(exc, msg) == [ok |-> FALSE, exc |-> exc, msg |-> msg]

\* ureg.Quantity(value, src).to(dst).magnitude
PintConvert(value, src, dst) ==
    IF src \notin DOMAIN PintUnits \/ dst \notin DOMAIN PintUnits
    THEN Raise("UndefinedUnitError", <<"undefined unit">>)
    ELSE IF PintUnits[src].dim # PintUnits[dst].dim
    THEN Raise("DimensionalityError", <<"cannot convert ", src, " to ", dst>>)
    ELSE IF src = dst
    THEN Ok(value)
    ELSE LET root == MulDiv(value, PintUnits[src].num, PintUnits[src].den)
                        + PintUnits[src].off
         IN  Ok(MulDiv(root - PintUnits[dst].off, PintUnits[dst].den, PintUnits[dst].num))

(***************************************************************************)
(* exceptions.py, and str() of an exception.                               *)
(***************************************************************************)
\* the classes an exception of class exc is an instance of
ExceptionBases(exc) ==
    CASE exc = "UnsupportedDimensionError" ->
            {"UnsupportedDimensionError", "PintGlassError", "KeyError", "LookupError",
             "Exception"}
      [] exc = "UnitConversionError" ->
            {"UnitConversionError", "PintGlassError", "ValueError", "Exception"}
      [] OTHER -> {exc, "Exception"}

SQ == "'"
DQ == "\""

InSeq(x, seq) == \E i \in 1..Len(seq) : seq[i] = x

\* repr() of a string without backslashes or control characters
Repr(msg) ==
    IF InSeq(SQ, msg) /\ ~InSeq(DQ, msg)
    THEN <<DQ>> \o msg \o <<DQ>>
    ELSE <<SQ>> \o msg \o <<SQ>>

\* str(e): KeyError.__str__ gives the repr of the message
StrOfException(exc, msg) ==
    IF "KeyError" \in ExceptionBases(exc) THEN Repr(msg) ELSE msg

(***************************************************************************)
(* core.py: unit resolution.                                               *)
(***************************************************************************)
\* a bug: the key is not lower-cased
NormalizeDimension_NoLower(dimension) == Replace(dimension, " ", "_")

\* a bug: spaces are kept
NormalizeDimension_NoReplace(dimension) == Lower(dimension)

NormalizeDimension(dimension) == Replace(Lower(dimension), " ", "_")

RECURSIVE SupportedList(_)
SupportedList(keys) ==
    IF keys = <<>> THEN <<>>
    ELSE <<SQ>> \o Head(keys) \o <<SQ>>
            \o (IF Len(keys) > 1 THEN <<", ">> ELSE <<>>)
            \o SupportedList(Tail(keys))

\* a bug: the message does not list the keys
UnsupportedDimensionMessage_NoList(dimension) ==
    <<"Unsupported dimension ", SQ>> \o dimension \o <<SQ>>

UnsupportedDimensionMessage(dimension) ==
    <<"Unsupported dimension ", SQ>> \o dimension \o <<SQ, "; supported: ">>
        \o SupportedList(RegistryOrder)

\* a bug: an unknown system falls back to the "imperial" of context.py
get_preferred_unit_FallbackImperial(dimension, system) ==
    LET dim_normalized == Replace(Lower(dimension), " ", "_")
    IN  IF dim_normalized \notin DOMAIN TARGET_DIMENSIONS_RAW
        THEN Raise("UnsupportedDimensionError",
                   <<"Unsupported dimension ", SQ>> \o dimension \o <<SQ>>)
        ELSE LET system_lower == Lower(system)
                 dim_units == TARGET_DIMENSIONS_RAW[dim_normalized]
             IN  Ok(dim_units[IF system_lower \notin DOMAIN dim_units
                              THEN CONTEXT_DEFAULT_SYSTEM
                              ELSE system_lower])

get_preferred_unit(dimension, system) ==
    LET dim_normalized == NormalizeDimension(dimension)
    IN  IF dim_normalized \notin DOMAIN TARGET_DIMENSIONS_RAW
        THEN Raise("UnsupportedDimensionError", UnsupportedDimensionMessage(dimension))
        ELSE LET system_lower == Lower(system)
                 dim_units == TARGET_DIMENSIONS_RAW[dim_normalized]
             IN  Ok(dim_units[IF system_lower \notin DOMAIN dim_units
                              THEN DEFAULT_SYSTEM
                              ELSE system_lower])

\* a bug: the base unit is the unit of the default system
get_base_unit_Default(dimension) == get_preferred_unit(dimension, DEFAULT_SYSTEM)

get_base_unit(dimension) == get_preferred_unit(dimension, BASE_SYSTEM)

(***************************************************************************)
(* core.py: the conversions.  Each takes the dict get_request_cache()      *)
(* returned and gives the call's outcome and the dict as the call left it. *)
(***************************************************************************)
EmptyDict == [k \in {} |-> 0]

ConversionFailedMessage(dimension, source_unit, target_unit, e) ==
    <<"Conversion failed for dimension ", SQ>> \o dimension
        \o <<SQ, " from ", SQ, source_unit, SQ, " to ", SQ, target_unit, SQ, ": ">>
        \o e.msg

\* a bug: the result is returned and not stored
ConvertAndStore_NoStore(cache, cache_key, value, dimension, source_unit, target_unit) ==
    IF ~source_unit.ok
    THEN [res |-> source_unit, cache |-> cache, hit |-> FALSE, key |-> cache_key]
    ELSE IF ~target_unit.ok
    THEN [res |-> target_unit, cache |-> cache, hit |-> FALSE, key |-> cache_key]
    ELSE [res |-> PintConvert(value, source_unit.val, target_unit.val),
          cache |-> cache, hit |-> FALSE, key |-> cache_key]

\* a bug: a call that fails leaves an entry under its key
ConvertAndStore_StoreOnFailure(cache, cache_key, value, dimension, source_unit, target_unit) ==
    IF ~source_unit.ok \/ ~target_unit.ok
    THEN [res |-> IF ~source_unit.ok THEN source_unit ELSE target_unit,
          cache |-> [k \in DOMAIN cache \cup {cache_key} |->
                        IF k = cache_key THEN value ELSE cache[k]],
          hit |-> FALSE, key |-> cache_key]
    ELSE [res |-> PintConvert(value, source_unit.val, target_unit.val),
          cache |-> cache, hit |-> FALSE, key |-> cache_key]

\* the body shared by the two conversions after the cache lookup has missed
ConvertAndStore(cache, cache_key, value, dimension, source_unit, target_unit) ==
    IF ~source_unit.ok
    THEN [res |-> source_unit, cache |-> cache, hit |-> FALSE, key |-> cache_key]
    ELSE IF ~target_unit.ok
    THEN [res |-> target_unit, cache |-> cache, hit |-> FALSE, key |-> cache_key]
    ELSE LET converted == PintConvert(value, source_unit.val, target_unit.val)
         IN  IF ~converted.ok
             THEN [res |-> Raise("UnitConversionError",
                                 ConversionFailedMessage(dimension, source_unit.val,
                                                         target_unit.val, converted)),
                   cache |-> cache, hit |-> FALSE, key |-> cache_key]
             ELSE [res |-> Ok(converted.val),
                   cache |-> [k \in DOMAIN cache \cup {cache_key} |->
                                IF k = cache_key THEN converted.val ELSE cache[k]],
                   hit |-> FALSE, key |-> cache_key]

convert_to_base(cache, value, dimension, system) ==
    LET cache_key == <<value, dimension, system, "to_base">>
    IN  IF cache_key \in DOMAIN cache
        THEN [res |-> Ok(cache[cache_key]), cache |-> cache, hit |-> TRUE,
              key |-> cache_key]
        ELSE ConvertAndStore(cache, cache_key, value, dimension,
                             get_preferred_unit(dimension, system),
                             get_base_unit(dimension))

\* a bug: the key of convert_from_base does not name its direction
convert_from_base_ToBaseKey(cache, value, dimension, system) ==
    LET cache_key == <<value, dimension, system, "to_base">>
    IN  IF cache_key \in DOMAIN cache
        THEN [res |-> Ok(cache[cache_key]), cache |-> cache, hit |-> TRUE,
              key |-> cache_key]
        ELSE ConvertAndStore(cache, cache_key, value, dimension,
                             get_base_unit(dimension),
                             get_preferred_unit(dimension, system))

convert_from_base(cache, value, dimension, system) ==
    LET cache_key == <<value, dimension, system, "from_base">>
    IN  IF cache_key \in DOMAIN cache
        THEN [res |-> Ok(cache[cache_key]), cache |-> cache, hit |-> TRUE,
              key |-> cache_key]
        ELSE ConvertAndStore(cache, cache_key, value, dimension,
                             get_base_unit(dimension),
                             get_preferred_unit(dimension, system))

(***************************************************************************)
(* fields.py: the hooks.  A raw value is what the caller hands to the      *)
(* model: an int, a float, a str or None.                                  *)
(***************************************************************************)
RawInt(n) == [type |-> "int", n |-> n, s |-> <<>>]
RawFloat(x) == [type |-> "float", n |-> x, s |-> <<>>]
RawStr(s) == [type |-> "str", n |-> 0, s |-> s]
RawNone == [type |-> "NoneType", n |-> 0, s |-> <<>>]

Digits == <<"0","1","2","3","4","5","6","7","8","9">>

IsDigit(ch) == \E i \in 1..Len(Digits) : Digits[i] = ch

DigitValue(ch) == (CHOOSE i \in 1..Len(Digits) : Digits[i] = ch) - 1

RECURSIVE DigitsValue(_)
DigitsValue(s) ==
    IF s = <<>> THEN 0
    ELSE DigitsValue(SubSeq(s, 1, Len(s) - 1)) * 10 + DigitValue(s[Len(s)])

\* float(value): of an int, a float, a str of decimal digits with an optional
\* sign; any other str is not a number here
PyFloat(value) ==
    CASE value.type = "int" -> Ok(Float(value.n))
      [] value.type = "float" -> Ok(value.n)
      [] value.type = "str" ->
            LET neg == value.s # <<>> /\ value.s[1] = "-"
                body == IF neg THEN Tail(value.s) ELSE value.s
            IN  IF body # <<>> /\ \A i \in 1..Len(body) : IsDigit(body[i])
                THEN Ok(Float(IF neg THEN 0 - DigitsValue(body) ELSE DigitsValue(body)))
                ELSE Raise("ValueError", <<"could not convert string to float">>)
      [] OTHER -> Raise("TypeError", <<"float() argument must be a string or a real number">>)

\* {value!r} of a value that is no number
ReprOfRaw(value) == IF value.type = "str" THEN Repr(value.s) ELSE <<"None">>

\* a bug: a failed coercion is reported as a conversion error
CoerceNumeric_ConversionError(value) ==
    LET f == PyFloat(value)
    IN  IF f.ok THEN f
        ELSE Raise("UnitConversionError",
                   <<"Cannot convert ">> \o ReprOfRaw(value)
                       \o <<" to a numeric value">>)

\* the hooks' first step: a value that is no int and no float goes through float()
CoerceNumeric(value) ==
    IF value.type \in {"int", "float"}
    THEN PyFloat(value)
    ELSE LET f == PyFloat(value)
         IN  IF f.ok THEN f
             ELSE Raise("ValueError",
                        <<"Cannot convert ">> \o ReprOfRaw(value)
                            \o <<" to a numeric value">>)

NoCall == [ok |-> TRUE, val |-> 0]

\* a bug: the engine's exception leaves the hook as it is
TranslateError_Propagate(r) == r

\* except (UnsupportedDimensionError, UnitConversionError) as e:
\*     raise ValueError(str(e)) from e
TranslateError(r) ==
    IF ~r.ok /\ ExceptionBases(r.exc) \cap {"UnsupportedDimensionError",
                                              "UnitConversionError"} # {}
    THEN Raise("ValueError", StrOfException(r.exc, r.msg))
    ELSE r

\* what a hook gives: its outcome, the dict as it left it, and what the engine
\* call inside it gave (NoCall if it made none)
HookResult(res, cache, inner) == [res |-> res, cache |-> cache, inner |-> inner]

\* Input, BeforeValidator
validate_to_base(cache, system, dimension, value) ==
    LET coerced == CoerceNumeric(value)
    IN  IF ~coerced.ok
        THEN HookResult(coerced, cache, NoCall)
        ELSE LET r == convert_to_base(cache, coerced.val, dimension, system)
             IN  HookResult(TranslateError(r.res), r.cache, r.res)

\* Input, PlainSerializer
serialize_from_base(cache, system, dimension, value) ==
    LET r == convert_from_base(cache, value, dimension, system)
    IN  HookResult(TranslateError(r.res), r.cache, r.res)

\* a bug: the Output validator converts like the Input one
validate_passthrough_Converts(cache, system, dimension, value) ==
    validate_to_base(cache, system, dimension, value)

\* Output, BeforeValidator: it reads neither the ambient system nor the cache
validate_passthrough(cache, system, dimension, value) ==
    HookResult(CoerceNumeric(value), cache, NoCall)

\* Output, PlainSerializer
serialize_to_preferred(cache, system, dimension, value) ==
    LET r == convert_from_base(cache, value, dimension, system)
    IN  HookResult(TranslateError(r.res), r.cache, r.res)

create_input_type(dimension) ==
    [dimension |-> dimension, validator |-> "validate_to_base",
     serializer |-> "serialize_from_base"]

create_output_type(dimension) ==
    [dimension |-> dimension, validator |-> "validate_passthrough",
     serializer |-> "serialize_to_preferred"]

PintGlass(dimension, model_type) ==
    IF model_type = "Input"
    THEN create_input_type(dimension)
    ELSE create_output_type(dimension)

\* the framework runs the annotated type's validator, serializer
RunValidator(type, cache, system, value) ==
    IF type.validator = "validate_to_base"
    THEN validate_to_base(cache, system, type.dimension, value)
    ELSE validate_passthrough(cache, system, type.dimension, value)

RunSerializer(type, cache, system, value) ==
    IF type.serializer = "serialize_from_base"
    THEN serialize_from_base(cache, system, type.dimension, value)
    ELSE serialize_to_preferred(cache, system, type.dimension, value)

(***************************************************************************)
(* State.                                                                  *)
(***************************************************************************)
VARIABLES
    alive,      \* the call chains (tasks, threads) that have started
    parent,     \* parent[c]: the chain that spawned c, 0 if none did
    context,    \* context[c]: the Context of chain c, a mapping var -> value
    tokens,     \* tokens[c]: the Tokens unit_context.set has returned in chain c,
                \* in order; <<c, i>> names the i-th of them
    heap,       \* heap[d]: the dict object d, a mapping cache key -> float
    writer,     \* writer[d][k]: the chain that stored key k in dict d
    mine,       \* mine[c]: the supported key c's latest set_unit_system was given,
                \* or NoArg (also once c has restored a handle)
    nested,     \* nested[c]: every restore that took effect in c so far was of
                \* c's innermost outstanding handle
    stored,     \* the model object: its field and the value the field holds, if any
    arrivedIn,  \* the ambient system when the stored value arrived
    last        \* the latest operation and its outcome

vars == <<alive, parent, context, tokens, heap, writer, mine, nested,
          stored, arrivedIn, last>>

scopeVars == <<alive, parent, context, tokens, mine, nested>>
cacheVars == <<heap, writer>>
fieldVars == <<stored, arrivedIn>>

NoArg == <<"<", "n", "o", "n", "e", ">">>

(***************************************************************************)
(* contextvars: a Context is an immutable mapping from the variables that  *)
(* have been set in it to their values; ContextVar.get falls back to the   *)
(* variable's default.                                                     *)
(***************************************************************************)
UNIT_CONTEXT == "unit_context"
REQUEST_CACHE == "_request_cache"

\* the dict object created once, at import, as _request_cache's default
DefaultDict == 1

EmptyContext == [v \in {} |-> 0]

VarDefault(var) ==
    IF var = UNIT_CONTEXT THEN CONTEXT_DEFAULT_SYSTEM ELSE DefaultDict

\* ContextVar.get() in Context ctx
ContextVarGet(ctx, var) ==
    IF var \in DOMAIN ctx THEN ctx[var] ELSE VarDefault(var)

\* a bug: the variable is one process-wide cell, so set writes every chain's value
ContextVarSet_Global(ctxs, c, var, value) ==
    [d \in DOMAIN ctxs |->
        [v \in DOMAIN ctxs[d] \cup {var} |->
            IF v = var THEN value ELSE ctxs[d][v]]]

\* a bug: a set made while the variable already has a value is dropped
ContextVarSet_OuterWins(ctxs, c, var, value) ==
    IF var \in DOMAIN ctxs[c]
    THEN ctxs
    ELSE [ctxs EXCEPT ![c] = [v \in DOMAIN ctxs[c] \cup {var} |->
                                IF v = var THEN value ELSE ctxs[c][v]]]

\* ContextVar.set(value) in chain c: only c's Context changes
ContextVarSet(ctxs, c, var, value) ==
    [ctxs EXCEPT ![c] =
        [v \in DOMAIN ctxs[c] \cup {var} |->
            IF v = var THEN value ELSE ctxs[c][v]]]

\* the Token ContextVar.set returns: the Context it was made in and the old value
\* (had = FALSE stands for Token.MISSING).  `seen` is no part of the Token: it
\* records what get() returned just before the set.
NewToken(ctxs, c, var) ==
    [var |-> var,
     ctx |-> c,
     had |-> var \in DOMAIN ctxs[c],
     old |-> IF var \in DOMAIN ctxs[c] THEN ctxs[c][var] ELSE NoArg,
     used |-> FALSE,
     seen |-> ContextVarGet(ctxs[c], var)]

\* the outcome of ContextVar.reset(token) in chain c
ResetOutcome(c, tok) ==
    IF tok.used THEN "RuntimeError"
    ELSE IF tok.ctx # c THEN "ValueError"
    ELSE "ok"

\* a bug: reset drops the variable instead of restoring the token's old value
ContextVarReset_Drop(ctxs, c, tok) ==
    [ctxs EXCEPT ![c] = [v \in DOMAIN ctxs[c] \ {tok.var} |-> ctxs[c][v]]]

\* a bug: reset marks the token used and leaves the value
ContextVarReset_Keep(ctxs, c, tok) == ctxs

\* ContextVar.reset(token) in chain c, when it succeeds
ContextVarReset(ctxs, c, tok) ==
    IF tok.had
    THEN [ctxs EXCEPT ![c] =
            [v \in DOMAIN ctxs[c] \cup {tok.var} |->
                IF v = tok.var THEN tok.old ELSE ctxs[c][v]]]
    ELSE [ctxs EXCEPT ![c] = [v \in DOMAIN ctxs[c] \ {tok.var} |-> ctxs[c][v]]]

\* a bug: a new task starts from an empty Context
CopyContext_Empty(ctxs, p) == EmptyContext

\* contextvars.copy_context(), which a new task runs in
CopyContext(ctxs, p) == ctxs[p]

(***************************************************************************)
(* context.py: the unit-system scope.                                      *)
(***************************************************************************)
get_unit_system(c) == ContextVarGet(context[c], UNIT_CONTEXT)

\* a bug: the unsupported key is kept
SetSystemValue_Keep(system) == Lower(system)

\* set_unit_system: the value it stores for argument `system`
SetSystemValue(system) ==
    LET system_lower == Lower(system)
    IN  IF system_lower \notin SUPPORTED_SYSTEMS
        THEN CONTEXT_DEFAULT_SYSTEM
        ELSE system_lower

\* set_unit_system: whether it warns
SetSystemWarns(system) == Lower(system) \notin SUPPORTED_SYSTEMS

\* the code points of the characters of the keys, in ascending order
AsciiOrder == UpperAlpha \o <<"_">> \o LowerAlpha

CodePoint(ch) == CHOOSE i \in 1..Len(AsciiOrder) : AsciiOrder[i] = ch

\* a < b for str
RECURSIVE StrLess(_, _)
StrLess(a, b) ==
    IF a = <<>> THEN b # <<>>
    ELSE IF b = <<>> THEN FALSE
    ELSE IF a[1] = b[1] THEN StrLess(Tail(a), Tail(b))
    ELSE CodePoint(a[1]) < CodePoint(b[1])

\* sorted(S) of a set of str
Sorted(S) ==
    CHOOSE q \in [1..Cardinality(S) -> S] :
        \A i, j \in 1..Cardinality(S) : i < j => StrLess(q[i], q[j])

\* repr() of a list of str
RECURSIVE ReprItems(_)
ReprItems(keys) ==
    IF keys = <<>> THEN <<>>
    ELSE <<SQ>> \o Head(keys) \o <<SQ>>
            \o (IF Len(keys) > 1 THEN <<", ">> ELSE <<>>)
            \o ReprItems(Tail(keys))

ReprList(keys) == <<"[">> \o ReprItems(keys) \o <<"]">>

SupportedSorted == Sorted(SUPPORTED_SYSTEMS)

\* the three characters the source has between the key and "falling back"
DASH == " <U+00E2 U+20AC U+201D> "

UnknownSystemMessage(system) ==
    <<"Unknown unit system ", SQ>> \o system \o <<SQ, DASH, "falling back to ", SQ>>
        \o CONTEXT_DEFAULT_SYSTEM \o <<SQ, ". ", "Supported systems: ">>
        \o ReprList(SupportedSorted) \o <<". Did you mean ", SQ, "s", "i", SQ, "?">>

Warning(category, message) == [category |-> category, message |-> message]

\* a bug: the key is compared as the caller wrote it
SetSystemWarnings_CaseSensitive(system) ==
    IF system \notin SUPPORTED_SYSTEMS
    THEN <<Warning("UserWarning", UnknownSystemMessage(system))>>
    ELSE <<>>

\* set_unit_system: the warnings one call hands to warnings.warn, in order
SetSystemWarnings(system) ==
    IF Lower(system) \notin SUPPORTED_SYSTEMS
    THEN <<Warning("UserWarning", UnknownSystemMessage(system))>>
    ELSE <<>>

\* the arguments the chains of the scope specification pass to set_unit_system
SystemArgs == {K_imperial, K_si, K_cgs}

\* the arguments of the key specification
KeyArgs == {K_imperial, K_si, K_SI, K_cgs, K_us, K_engg_si, K_engg_field, K_bogus}

NoOp == [op |-> "none", chain |-> 0]

(***************************************************************************)
(* fields.py: the fields of the model classes under test.                  *)
(***************************************************************************)
FieldDefs ==
    <<[dimension |-> D_temperature, model_type |-> "Input"],
      [dimension |-> D_length, model_type |-> "Output"],
      [dimension |-> D_unknown_dim, model_type |-> "Input"],
      [dimension |-> D_unknown_dim, model_type |-> "Output"]>>

FieldIds == 1..Len(FieldDefs)

NoValue == [has |-> FALSE, field |-> 0, val |-> 0]

\* the handles chain c holds and has not restored, and the innermost of them
Outstanding(c) == {i \in 1..Len(tokens[c]) : ~tokens[c][i].used}

Innermost(c) ==
    IF Outstanding(c) = {} THEN 0
    ELSE CHOOSE i \in Outstanding(c) : \A j \in Outstanding(c) : j <= i

RECURSIVE SumLen(_, _)
SumLen(f, S) ==
    IF S = {} THEN 0
    ELSE LET x == CHOOSE y \in S : TRUE IN Len(f[x]) + SumLen(f, S \ {x})

TokenCount == SumLen(tokens, Chains)

\* chain ids are handed out in order
NextChain == Cardinality(alive) + 1

Init ==
    /\ alive = {1}
    /\ parent = [c \in Chains |-> 0]
    /\ context = [c \in Chains |-> EmptyContext]
    /\ tokens = [c \in Chains |-> <<>>]
    /\ heap = <<EmptyDict>>
    /\ writer = <<EmptyDict>>
    /\ stored = NoValue
    /\ arrivedIn = NoArg
    /\ mine = [c \in Chains |-> NoArg]
    /\ nested = [c \in Chains |-> TRUE]
    /\ last = NoOp

\* a new task is created by chain p: it runs in a copy of p's Context
Spawn(p, c) ==
    /\ p \in alive
    /\ c \notin alive
    /\ c = NextChain
    /\ alive' = alive \cup {c}
    /\ parent' = [parent EXCEPT ![c] = p]
    /\ context' = [context EXCEPT ![c] = CopyContext(context, p)]
    /\ last' = [op |-> "spawn", chain |-> p, child |-> c]
    /\ UNCHANGED <<tokens, mine, nested, cacheVars, fieldVars>>

\* a new thread (or a run in a fresh Context) starts: its Context is empty
StartChain(c) ==
    /\ c \notin alive
    /\ c = NextChain
    /\ alive' = alive \cup {c}
    /\ context' = [context EXCEPT ![c] = EmptyContext]
    /\ last' = [op |-> "start", chain |-> c]
    /\ UNCHANGED <<parent, tokens, mine, nested, cacheVars, fieldVars>>

SetUnitSystem(c, system) ==
    /\ c \in alive
    /\ TokenCount < MaxTokens
    /\ tokens' = [tokens EXCEPT ![c] = Append(@, NewToken(context, c, UNIT_CONTEXT))]
    /\ context' = ContextVarSet(context, c, UNIT_CONTEXT, SetSystemValue(system))
    /\ mine' = [mine EXCEPT ![c] =
                    IF system \in SUPPORTED_SYSTEMS THEN system ELSE NoArg]
    /\ last' = [op |-> "set_unit_system", chain |-> c, arg |-> system,
                warned |-> SetSystemWarns(system),
                warnings |-> SetSystemWarnings(system), kind |-> "ok"]
    /\ UNCHANGED <<alive, parent, nested, cacheVars, fieldVars>>

ResetUnitSystem(c, o, i) ==
    /\ c \in alive
    /\ i \in 1..Len(tokens[o])
    /\ LET tok == tokens[o][i]
           out == ResetOutcome(c, tok)
           isTop == o = c /\ i = Innermost(c)
       IN  /\ IF out = "ok"
              THEN /\ context' = ContextVarReset(context, c, tok)
                   /\ tokens' = [tokens EXCEPT ![o][i].used = TRUE]
              ELSE UNCHANGED <<context, tokens>>
           /\ mine' = [mine EXCEPT ![c] = IF out = "ok" THEN NoArg ELSE @]
           /\ nested' = [nested EXCEPT ![c] = @ /\ (isTop \/ out # "ok")]
           /\ last' = [op |-> "reset_unit_system", chain |-> c, tok |-> <<o, i>>,
                       kind |-> out]
    /\ UNCHANGED <<alive, parent, cacheVars, fieldVars>>

GetUnitSystem(c) ==
    /\ c \in alive
    /\ last' = [op |-> "get_unit_system", chain |-> c, val |-> get_unit_system(c),
                kind |-> "ok"]
    /\ UNCHANGED <<scopeVars, cacheVars, fieldVars>>

NextScope ==
    \/ \E p, c \in Chains : Spawn(p, c)
    \/ \E c \in Chains : StartChain(c)
    \/ \E c \in Chains, s \in SystemArgs : SetUnitSystem(c, s)
    \/ \E c, o \in Chains, i \in 1..MaxTokens : ResetUnitSystem(c, o, i)
    \/ \E c \in Chains : GetUnitSystem(c)

SpecScope == Init /\ [][NextScope]_vars

(***************************************************************************)
(* context.py: the request cache, and core.py's conversions run in a       *)
(* chain.                                                                  *)
(***************************************************************************)
\* the dict get_request_cache() returns in chain c
get_request_cache(c) == ContextVarGet(context[c], REQUEST_CACHE)

\* a bug: clear empties the chain's current dict in place
ClearCache_InPlace(h, ctxs, c) ==
    [heap |-> [h EXCEPT ![ContextVarGet(ctxs[c], REQUEST_CACHE)] = EmptyDict],
     context |-> ctxs]

\* clear_request_cache: _request_cache.set({}) makes a new dict object and
\* names it in the chain's Context
ClearCache(h, ctxs, c) ==
    [heap |-> Append(h, EmptyDict),
     context |-> ContextVarSet(ctxs, c, REQUEST_CACHE, Len(h) + 1)]

\* clear_request_cache() in chain c; nothing in the package restores its Token
ClearRequestCache(c) ==
    /\ c \in alive
    /\ Len(heap) < MaxDicts
    /\ heap' = ClearCache(heap, context, c).heap
    /\ writer' = IF Len(heap') > Len(heap) THEN Append(writer, EmptyDict)
                  ELSE [writer EXCEPT ![get_request_cache(c)] = EmptyDict]
    /\ context' = ClearCache(heap, context, c).context
    /\ last' = [op |-> "clear_request_cache", chain |-> c, kind |-> "ok"]
    /\ UNCHANGED <<alive, parent, tokens, mine, nested, fieldVars>>

GetRequestCache(c) ==
    /\ c \in alive
    /\ last' = [op |-> "get_request_cache", chain |-> c, kind |-> "ok",
                val |-> heap[get_request_cache(c)]]
    /\ UNCHANGED <<scopeVars, cacheVars, fieldVars>>

\* the ghost record of who stored what, after chain c's call left dict d as `after`
Written(d, c, after) ==
    [writer EXCEPT ![d] =
        [k \in DOMAIN after |-> IF k \in DOMAIN writer[d] THEN writer[d][k] ELSE c]]

\* the outcome of a call of the engine, as `last` records it
Outcome(op, c, r) ==
    [op |-> op, chain |-> c, key |-> r.key, hit |-> r.hit,
     kind |-> IF r.res.ok THEN "ok" ELSE r.res.exc,
     val |-> IF r.res.ok THEN r.res.val ELSE 0,
     msg |-> IF r.res.ok THEN <<>> ELSE r.res.msg]

\* the step of chain c that calls a conversion and gets r
Converts(op, c, r) ==
    LET d == get_request_cache(c)
    IN  /\ c \in alive
        /\ heap' = [heap EXCEPT ![d] = r.cache]
        /\ writer' = Written(d, c, r.cache)
        /\ last' = Outcome(op, c, r)
        /\ UNCHANGED <<scopeVars, fieldVars>>

ConvertToBase(c, value, dimension, system) ==
    Converts("convert_to_base", c,
             convert_to_base(heap[get_request_cache(c)], value, dimension, system))

ConvertFromBase(c, value, dimension, system) ==
    Converts("convert_from_base", c,
             convert_from_base(heap[get_request_cache(c)], value, dimension, system))

\* the arguments of the conversions of the cache specification
ConvValues == {Float(1)}
ConvDimensions == {D_length, D_unknown_dim}
ConvSystems == {K_imperial}

NextCache ==
    \/ \E p, c \in Chains : Spawn(p, c)
    \/ \E c \in Chains : ClearRequestCache(c)
    \/ \E c \in Chains, v \in ConvValues, d \in ConvDimensions, s \in ConvSystems :
            ConvertToBase(c, v, d, s)

SpecCache == Init /\ [][NextCache]_vars

(***************************************************************************)
(* The request cache: properties.                                          *)
(***************************************************************************)

\* C3: the cache a chain gets holds no entry another chain stored, and no
\* conversion of a chain is answered from an entry another chain stored.
C3_CacheIsolated ==
    /\ \A c \in alive :
            \A k \in DOMAIN heap[get_request_cache(c)] :
                writer[get_request_cache(c)][k] = c
    /\ (last.op \in {"convert_to_base", "convert_from_base"} /\ last.hit)
            => writer[get_request_cache(last.chain)][last.key] = last.chain

\* C4: right after clear_request_cache() the chain's cache is empty, after a
\* conversion that returned it holds the conversion's key, and a clear in one
\* chain leaves every existing dict, and the cache of every other chain, as
\* it was.
C4_AfterClearAndConvert ==
    /\ last.op = "clear_request_cache"
            => DOMAIN heap[get_request_cache(last.chain)] = {}
    /\ (last.op = "convert_to_base" /\ last.kind = "ok")
            => last.key \in DOMAIN heap[get_request_cache(last.chain)]

C4_ClearKeepsOthers ==
    last'.op = "clear_request_cache"
        => /\ \A d \in 1..Len(heap) : heap'[d] = heap[d]
           /\ \A c \in alive \ {last'.chain} :
                    ContextVarGet(context'[c], REQUEST_CACHE) = get_request_cache(c)

C4_ClearIsolates == [](C4_AfterClearAndConvert) /\ [][C4_ClearKeepsOthers]_vars

\* a chain has just cleared and reads an empty cache while another chain,
\* which cleared and converted before, still has its entry
C4_Witness ==
    /\ last.op = "clear_request_cache"
    /\ DOMAIN heap[get_request_cache(last.chain)] = {}
    /\ \E c \in alive \ {last.chain} :
            /\ get_request_cache(c) \notin {DefaultDict, get_request_cache(last.chain)}
            /\ DOMAIN heap[get_request_cache(c)] # {}

(***************************************************************************)
(* fields.py: a model object is built (its fields arrive) and dumped (its  *)
(* fields depart) in a chain.                                              *)
(***************************************************************************)
FieldType(f) == PintGlass(FieldDefs[f].dimension, FieldDefs[f].model_type)

\* system = get_unit_system(), as the hooks read it when they run
ArriveSystem(c, f) == get_unit_system(c)

\* a bug: the serializer uses the system the value arrived in
DepartSystem_Arrival(c, f) == arrivedIn

DepartSystem(c, f) == get_unit_system(c)

HookOutcome(op, c, f, raw, h) ==
    [op |-> op, chain |-> c, field |-> f, raw |-> raw,
     kind |-> IF h.res.ok THEN "ok" ELSE h.res.exc,
     val |-> IF h.res.ok THEN h.res.val ELSE 0,
     msg |-> IF h.res.ok THEN <<>> ELSE h.res.msg,
     inner |-> IF h.inner.ok THEN "none" ELSE h.inner.exc,
     innerMsg |-> IF h.inner.ok THEN <<>> ELSE h.inner.msg]

\* a model with the one field f is built in chain c: the validator of f runs
\* on raw, and a value it returns is the model's stored value
Arrive(c, f, raw) ==
    LET d == get_request_cache(c)
        h == RunValidator(FieldType(f), heap[d], ArriveSystem(c, f), raw)
    IN  /\ c \in alive
        /\ heap' = [heap EXCEPT ![d] = h.cache]
        /\ writer' = Written(d, c, h.cache)
        /\ IF h.res.ok
           THEN /\ stored' = [has |-> TRUE, field |-> f, val |-> h.res.val]
                /\ arrivedIn' = get_unit_system(c)
           ELSE UNCHANGED <<stored, arrivedIn>>
        /\ last' = HookOutcome("arrive", c, f, raw, h)
        /\ UNCHANGED scopeVars

\* the model is dumped in chain c: the serializer of its field runs on the
\* stored value
Depart(c, f) ==
    LET d == get_request_cache(c)
        h == RunSerializer(FieldType(f), heap[d], DepartSystem(c, f), stored.val)
    IN  /\ c \in alive
        /\ stored.has
        /\ stored.field = f
        /\ heap' = [heap EXCEPT ![d] = h.cache]
        /\ writer' = Written(d, c, h.cache)
        /\ last' = HookOutcome("depart", c, f, RawFloat(stored.val), h)
        /\ UNCHANGED <<scopeVars, fieldVars>>

\* the raw values of the field specification
RawInputs == {RawInt(32), RawStr(<<"3", "2">>), RawStr(<<"a", "b", "c">>)}

\* the ambient systems of the field specification
FieldSystems == {K_imperial, K_si}

NextFields ==
    \/ \E s \in FieldSystems : SetUnitSystem(1, s)
    \/ \E f \in FieldIds, raw \in RawInputs : Arrive(1, f, raw)
    \/ \E f \in FieldIds : Depart(1, f)

SpecFields == Init /\ [][NextFields]_vars

LastField == FieldDefs[last.field]

LastIsHook(op, model_type) ==
    /\ last.op = op
    /\ LastField.model_type = model_type

\* C6: an Input field stores convert_to_base(v, d, A), A the ambient system
\* when the validator runs, and emits convert_from_base(stored, d, B), B the
\* ambient system when the serializer runs, also when A # B.
C6_InputUsesAmbientOfEachPhase ==
    /\ (LastIsHook("arrive", "Input") /\ last.kind = "ok") =>
            /\ arrivedIn = get_unit_system(last.chain)
            /\ stored.field = last.field
            /\ stored.val = convert_to_base(EmptyDict, PyFloat(last.raw).val,
                                            LastField.dimension, arrivedIn).res.val
    /\ (LastIsHook("depart", "Input") /\ last.kind = "ok") =>
            last.val = convert_from_base(EmptyDict, stored.val, LastField.dimension,
                                         get_unit_system(last.chain)).res.val

\* an Input value that arrived under one system has departed under another,
\* and the two systems give different numbers
C6_Witness ==
    /\ LastIsHook("depart", "Input")
    /\ last.kind = "ok"
    /\ arrivedIn # get_unit_system(last.chain)
    /\ last.val # convert_from_base(EmptyDict, stored.val, LastField.dimension,
                                    arrivedIn).res.val

C7_AfterOutputHook ==
    /\ LastIsHook("arrive", "Output") =>
            LET coerced == CoerceNumeric(last.raw)
            IN  /\ last.kind = "ok" <=> coerced.ok
                /\ last.kind = "ok" =>
                        /\ stored.field = last.field
                        /\ stored.val = coerced.val
                /\ last.inner = "none"
    /\ (LastIsHook("depart", "Output") /\ last.kind = "ok") =>
            /\ last.val = convert_from_base(EmptyDict, stored.val, LastField.dimension,
                                            get_unit_system(last.chain)).res.val
            /\ last.val = serialize_from_base(EmptyDict, get_unit_system(last.chain),
                                              LastField.dimension, stored.val).res.val

C7_OutputArrivalWritesNothing ==
    \A f \in FieldIds, raw \in RawInputs :
        (FieldDefs[f].model_type = "Output" /\ Arrive(1, f, raw)) => heap' = heap

\* C7: an Output field stores the raw value coerced to float whatever the
\* ambient system is, its arrival writes nothing into the cache, and it emits
\* convert_from_base(stored, d, ambient system at departure), as an Input
\* field does.
C7_OutputPassThrough ==
    [](C7_AfterOutputHook) /\ [][C7_OutputArrivalWritesNothing]_vars

\* an Output value has arrived under a system in which an Input field would
\* have converted it, and has departed converted
C7_Witness ==
    /\ LastIsHook("depart", "Output")
    /\ last.kind = "ok"
    /\ last.val # stored.val
    /\ stored.val # convert_to_base(EmptyDict, stored.val, LastField.dimension,
                                    arrivedIn).res.val

EngineErrors == {"UnsupportedDimensionError", "UnitConversionError"}

\* orig is a contiguous part of m
Carries(m, orig) ==
    \E i \in 0..(Len(m) - Len(orig)) : SubSeq(m, i + 1, i + Len(orig)) = orig

\* C8: when the engine raises UnsupportedDimensionError or UnitConversionError
\* inside a hook, the hook ends with ValueError carrying the engine's message
\* and gives no value; a field whose dimension is not in the registry is
\* rejected when its hook calls the engine.
C8_EngineErrorsBecomeValueError ==
    /\ (last.op \in {"arrive", "depart"} /\ last.inner \in EngineErrors) =>
            /\ last.kind = "ValueError"
            /\ Carries(last.msg, last.innerMsg)
    /\ (/\ last.op \in {"arrive", "depart"}
        /\ NormalizeDimension(LastField.dimension) \notin DOMAIN TARGET_DIMENSIONS_RAW
        /\ \/ last.op = "depart"
           \/ LastField.model_type = "Input" /\ CoerceNumeric(last.raw).ok) =>
            /\ last.kind = "ValueError"
            /\ last.inner = "UnsupportedDimensionError"

\* the serializer of an Output field of an unregistered dimension has been
\* refused by the engine
C8_Witness ==
    /\ LastIsHook("depart", "Output")
    /\ last.inner = "UnsupportedDimensionError"
    /\ last.kind = "ValueError"

\* unrelated chains, every kind of key
NextKeys ==
    \/ \E c \in Chains : StartChain(c)
    \/ \E c \in Chains, s \in KeyArgs : SetUnitSystem(c, s)
    \/ \E c \in Chains, i \in 1..MaxTokens : ResetUnitSystem(c, c, i)
    \/ \E c \in Chains : GetUnitSystem(c)

SpecKeys == Init /\ [][NextKeys]_vars

(***************************************************************************)
(* The unit-system scope: properties.                                      *)
(***************************************************************************)

\* C1: a chain that set "imperial" or "si" itself reads back, after any steps
\* of the other chains, exactly the key it set.
C1_ReadsBackOwnSystem ==
    (last.op = "get_unit_system" /\ mine[last.chain] # NoArg)
        => last.val = mine[last.chain]

\* a chain reads its own key back while another chain holds the other key
C1_Witness ==
    /\ last.op = "get_unit_system"
    /\ mine[last.chain] = K_imperial
    /\ \E d \in alive \ {last.chain} : mine[d] = K_si

\* C2: while a chain restores its handles once each, innermost first, the
\* value read right after a restore is the value read right before the
\* matching set.
C2_NestedRestore ==
    (/\ last.op = "reset_unit_system"
     /\ last.kind = "ok"
     /\ nested[last.chain])
        => get_unit_system(last.chain) = tokens[last.tok[1]][last.tok[2]].seen

\* the outer set "imperial", the inner set has just been restored, the outer
\* handle is still held and the chain reads "imperial" again
C2_Witness ==
    /\ last.op = "reset_unit_system"
    /\ last.kind = "ok"
    /\ nested[last.chain]
    /\ last.tok[2] >= 2
    /\ ~tokens[last.chain][last.tok[2] - 1].used
    /\ tokens[last.chain][last.tok[2]].had
    /\ tokens[last.chain][last.tok[2]].seen = K_imperial
    /\ get_unit_system(last.chain) = K_imperial

\* C5: a spawned chain starts with its parent's current system, and a set or
\* a reset made in one chain never changes what another chain reads.
C5_SpawnInherits ==
    last.op = "spawn" => get_unit_system(last.child) = get_unit_system(last.chain)

C5_OthersUntouched ==
    \A c \in alive :
        (/\ last'.op \in {"set_unit_system", "reset_unit_system"}
         /\ last'.chain # c)
            => ContextVarGet(context'[c], UNIT_CONTEXT) = get_unit_system(c)

C5_InheritedNotShared == [](C5_SpawnInherits) /\ [][C5_OthersUntouched]_vars

\* a spawned chain has just set a system its parent does not read
C5_Witness ==
    /\ last.op = "set_unit_system"
    /\ parent[last.chain] # 0
    /\ tokens[last.chain][1].seen = K_si
    /\ get_unit_system(last.chain) = K_imperial
    /\ get_unit_system(parent[last.chain]) = K_si

\* C9: after set_unit_system(k) with k not supported, the chain reads the
\* default system the package exports, and the call has not failed.
C9_FallbackIsExportedDefault ==
    (last.op = "set_unit_system" /\ Lower(last.arg) \notin SUPPORTED_SYSTEMS)
        => (last.kind = "ok" /\ get_unit_system(last.chain) = DEFAULT_SYSTEM)

\* C10: set_unit_system keeps every system key of the registry: after
\* set_unit_system(s) with s a key of UNIT_SYSTEMS the chain reads s, and no
\* other key is kept.
C10_SupportedIsRegistryKeys ==
    last.op = "set_unit_system"
        => (last.arg \in RegistrySystemKeys
                <=> (get_unit_system(last.chain) = last.arg /\ ~last.warned))

\* C11: a call of set_unit_system with a key whose lower-cased form is not
\* supported hands exactly one warning to warnings.warn, a UserWarning that
\* names the key; a call with a supported key in any letter case hands none
\* and sets the lower-cased key.
C11_OneWarningPerUnknownKey ==
    last.op = "set_unit_system" =>
        IF Lower(last.arg) \notin SUPPORTED_SYSTEMS
        THEN /\ Len(last.warnings) = 1
             /\ last.warnings[1].category = "UserWarning"
             /\ Carries(last.warnings[1].message, <<SQ>> \o last.arg \o <<SQ>>)
        ELSE /\ last.warnings = <<>>
             /\ get_unit_system(last.chain) = Lower(last.arg)

\* a supported key written in capitals has been set
C11_Witness ==
    /\ last.op = "set_unit_system"
    /\ last.arg # Lower(last.arg)
    /\ Lower(last.arg) \in SUPPORTED_SYSTEMS
    /\ last.warnings = <<>>

(***************************************************************************)
(* core.py: unit resolution, called directly.                              *)
(***************************************************************************)
UpperOf ==
    [l \in {LowerAlpha[i] : i \in 1..Len(LowerAlpha)} |->
        UpperAlpha[CHOOSE i \in 1..Len(LowerAlpha) : LowerAlpha[i] = l]]

UpperChar(ch) == IF ch \in DOMAIN UpperOf THEN UpperOf[ch] ELSE ch

IsLetter(ch) == ch \in DOMAIN UpperOf \/ ch \in DOMAIN LowerOf

\* str.title(): a letter after a non-letter is upper-cased, any other letter
\* is lower-cased
Title(s) ==
    [i \in 1..Len(s) |->
        IF ~IsLetter(s[i]) THEN s[i]
        ELSE IF i = 1 \/ ~IsLetter(s[i - 1]) THEN UpperChar(s[i])
        ELSE LowerChar(s[i])]

\* get_pretty_dimensions: the key it gives the row of dim_key
PrettyKey(dim_key) == Title(Replace(dim_key, "_", " "))

\* the keys of the pretty TARGET_DIMENSIONS
PRETTY_KEYS == {PrettyKey(d) : d \in DOMAIN TARGET_DIMENSIONS_RAW}

\* the row of the raw table a pretty key was made from
RawKeyOf(P) == CHOOSE d \in DOMAIN TARGET_DIMENSIONS_RAW : PrettyKey(d) = P

\* dimension arguments that are no key of the raw table as written
D_PRESSURE == <<"P","R","E","S","S","U","R","E">>
D_tEmPeRaTuRe == <<"t","E","m","P","e","R","a","T","u","R","e">>
D_mass_flow_rate_spaces == <<"m","a","s","s"," ","f","l","o","w"," ","r","a","t","e">>
D_mass_flow_rate_runs ==
    <<"m","a","s","s"," "," ","f","l","o","w"," "," "," ","r","a","t","e">>
D_mass_flow_rate_tab == <<"m","a","s","s","\t","f","l","o","w","_","r","a","t","e">>
D_not_a_dimension == <<"n","o","t","_","a","_","d","i","m","e","n","s","i","o","n">>

\* system arguments in other letter cases, and one more unknown key
K_Si == <<"S","i">>
K_IMPERIAL == <<"I","M","P","E","R","I","A","L">>
K_unknown_system == <<"u","n","k","n","o","w","n","_","s","y","s","t","e","m">>

UnitDimensions ==
    DOMAIN TARGET_DIMENSIONS_RAW \cup PRETTY_KEYS
        \cup {D_PRESSURE, D_tEmPeRaTuRe, D_mass_flow_rate_spaces, D_mass_flow_rate_runs,
              D_mass_flow_rate_tab, D_unknown_dim, D_not_a_dimension}

UnitSystems == KeyArgs \cup {K_Si, K_IMPERIAL, K_unknown_system}

NoUnit == "<none>"

UnitOutcome(op, dimension, system, r) ==
    [op |-> op, dimension |-> dimension, system |-> system,
     kind |-> IF r.ok THEN "ok" ELSE r.exc,
     val |-> IF r.ok THEN r.val ELSE NoUnit,
     msg |-> IF r.ok THEN <<>> ELSE r.msg]

GetPreferredUnit(dimension, system) ==
    /\ last' = UnitOutcome("get_preferred_unit", dimension, system,
                           get_preferred_unit(dimension, system))
    /\ UNCHANGED <<scopeVars, cacheVars, fieldVars>>

GetBaseUnit(dimension) ==
    /\ last' = UnitOutcome("get_base_unit", dimension, NoArg,
                           get_base_unit(dimension))
    /\ UNCHANGED <<scopeVars, cacheVars, fieldVars>>

NextUnits ==
    \/ \E d \in UnitDimensions, s \in UnitSystems : GetPreferredUnit(d, s)
    \/ \E d \in UnitDimensions : GetBaseUnit(d)

SpecUnits == Init /\ [][NextUnits]_vars

C13_UnknownSystemIsImperial ==
    (/\ last.op = "get_preferred_unit"
     /\ last.dimension = D_pressure
     /\ last.system = K_unknown_system) =>
        /\ last.kind = "ok"
        /\ last.val = "psi"
        /\ last.val = TARGET_DIMENSIONS_RAW[D_pressure][K_imperial]

\* C14: for a dimension key whose normalised form is not in the registry,
\* get_preferred_unit (whatever the system) and get_base_unit raise
\* UnsupportedDimensionError, a KeyError, whose message lists the keys of the
\* registry, and return no unit.
C14_UnknownDimensionRaises ==
    (/\ last.op \in {"get_preferred_unit", "get_base_unit"}
     /\ NormalizeDimension(last.dimension) \notin DOMAIN TARGET_DIMENSIONS_RAW) =>
        /\ last.kind = "UnsupportedDimensionError"
        /\ "KeyError" \in ExceptionBases(last.kind)
        /\ last.val = NoUnit
        /\ \A d \in DOMAIN TARGET_DIMENSIONS_RAW :
                Carries(last.msg, <<SQ>> \o d \o <<SQ>>)

\* get_base_unit has been refused for an unregistered key
C14_Witness ==
    /\ last.op = "get_base_unit"
    /\ last.dimension = D_not_a_dimension
    /\ last.kind = "UnsupportedDimensionError"

\* the same character up to letter case, or a space for an underscore
SameKeyChar(a, b) == LowerChar(a) = LowerChar(b) \/ {a, b} \subseteq {" ", "_"}

SameDimensionKey(a, b) ==
    Len(a) = Len(b) /\ \A i \in 1..Len(a) : SameKeyChar(a[i], b[i])

SameSystemKey(a, b) ==
    Len(a) = Len(b) /\ \A i \in 1..Len(a) : LowerChar(a[i]) = LowerChar(b[i])

\* C15: get_preferred_unit gives the same unit string for every letter-case
\* variant of a dimension key, with a single space or an underscore between
\* the words, and for every letter-case variant of a known system key.
C15_CaseAndSeparatorInsensitive ==
    last.op = "get_preferred_unit" =>
        \A d \in UnitDimensions, s \in UnitSystems :
            (/\ SameDimensionKey(last.dimension, d)
             /\ SameSystemKey(last.system, s)
             /\ \E k \in UNIT_SYSTEMS : SameSystemKey(k, s)) =>
                LET r == get_preferred_unit(d, s)
                IN  /\ r.ok <=> last.kind = "ok"
                    /\ r.ok => r.val = last.val

\* a registered key written in capitals, with a known system in mixed case,
\* has been resolved to the unit of the table
C15_Witness ==
    /\ last.op = "get_preferred_unit"
    /\ last.dimension = D_PRESSURE
    /\ last.system = K_Si
    /\ last.kind = "ok"
    /\ last.val = TARGET_DIMENSIONS_RAW[D_pressure][K_si]

\* C16: a run of whitespace between the words of a dimension key (several
\* spaces, a tab) counts as one underscore, so the key resolves as
\* "mass_flow_rate" does.
C16_WhitespaceRunsCollapse ==
    (/\ last.op = "get_preferred_unit"
     /\ last.dimension \in {D_mass_flow_rate_runs, D_mass_flow_rate_tab}) =>
        /\ last.kind = "ok"
        /\ Ok(last.val) = get_preferred_unit(D_mass_flow_rate, last.system)

\* C17: every key P of the pretty table normalises to a key of the raw
\* table, distinct pretty keys to distinct raw keys, and get_preferred_unit(P, s)
\* is the unit of the raw row P was made from, for every s.
C17_PrettyKeysResolve ==
    /\ \A P \in PRETTY_KEYS :
            /\ NormalizeDimension(P) \in DOMAIN TARGET_DIMENSIONS_RAW
            /\ NormalizeDimension(P) = RawKeyOf(P)
    /\ \A P, Q \in PRETTY_KEYS : P # Q => NormalizeDimension(P) # NormalizeDimension(Q)
    /\ Cardinality(PRETTY_KEYS) = Cardinality(DOMAIN TARGET_DIMENSIONS_RAW)
    /\ (last.op = "get_preferred_unit" /\ last.dimension \in PRETTY_KEYS) =>
            /\ last.kind = "ok"
            /\ Ok(last.val) = get_preferred_unit(RawKeyOf(last.dimension), last.system)
            /\ Lower(last.system) \in UNIT_SYSTEMS =>
                    last.val = TARGET_DIMENSIONS_RAW[RawKeyOf(last.dimension)]
                                                    [Lower(last.system)]

\* the pretty key of a three-word row has been resolved
C17_Witness ==
    /\ last.op = "get_preferred_unit"
    /\ last.dimension = PrettyKey(D_mass_flow_rate)
    /\ last.dimension # D_mass_flow_rate
    /\ last.system = K_engg_si
    /\ last.val = "kilogram / hour"

(***************************************************************************)
(* core.py: the conversions of one chain, with the cache they fill.        *)
(***************************************************************************)
StoreValues == {Float(100)}
StoreDimensions == {D_length, D_temperature, D_unknown_dim}
StoreSystems == {K_imperial, K_si}

NextConvert ==
    \/ \E v \in StoreValues, d \in StoreDimensions, s \in StoreSystems :
            ConvertToBase(1, v, d, s)
    \/ \E v \in StoreValues, d \in StoreDimensions, s \in StoreSystems :
            ConvertFromBase(1, v, d, s)

SpecConvert == Init /\ [][NextConvert]_vars

Conversions == {"convert_to_base", "convert_from_base"}

DirectionOf(op) == IF op = "convert_to_base" THEN "to_base" ELSE "from_base"

\* d with key k set to v
DictWith(d, k, v) == [x \in DOMAIN d \cup {k} |-> IF x = k THEN v ELSE d[x]]

\* after a conversion that returned: its key names its direction, the chain's
\* cache holds the returned value under the key, and a value that was not
\* read from the cache is the converted one
C18_AfterConversion ==
    (last.op \in Conversions /\ last.kind = "ok") =>
        LET cache == heap[get_request_cache(last.chain)]
            fresh == IF last.op = "convert_to_base"
                     THEN convert_to_base(EmptyDict, last.key[1], last.key[2], last.key[3])
                     ELSE convert_from_base(EmptyDict, last.key[1], last.key[2], last.key[3])
        IN  /\ last.key[4] = DirectionOf(last.op)
            /\ last.key \in DOMAIN cache
            /\ cache[last.key] = last.val
            /\ last.val = fresh.res.val

\* a conversion whose key is in the cache returns the cached value and leaves
\* every dict as it is; one whose key is not adds its result under the key and
\* changes nothing else
C18_ConversionStep ==
    last'.op \in Conversions =>
        LET d == get_request_cache(last'.chain)
        IN  IF last'.key \in DOMAIN heap[d]
            THEN /\ last'.hit
                 /\ last'.kind = "ok"
                 /\ last'.val = heap[d][last'.key]
                 /\ heap' = heap
            ELSE /\ ~last'.hit
                 /\ heap' = [heap EXCEPT ![d] =
                                IF last'.kind = "ok"
                                THEN DictWith(heap[d], last'.key, last'.val)
                                ELSE heap[d]]

\* C18: a conversion that misses the cache stores its result under
\* (value, dimension, system, direction) in the chain's cache and returns it;
\* a later call with the same arguments returns the cached value and adds or
\* changes no entry.  The same for both directions.
C18_CacheStoresAndAnswers ==
    [](C18_AfterConversion) /\ [][C18_ConversionStep]_vars

\* convert_from_base has been answered from a cache that holds other entries
C18_Witness ==
    /\ last.op = "convert_from_base"
    /\ last.hit
    /\ Cardinality(DOMAIN heap[get_request_cache(last.chain)]) > 2
    /\ last.val # last.key[1]

(***************************************************************************)
(* core.py: one conversion in a fresh cache, and the conversion back.      *)
(***************************************************************************)
\* the smallest positive float of the model
Epsilon == 1

\* the values converted for dimension d: values whose conversions the
\* 1/SCALE grid resolves and the integers of the checker hold, and for
\* temperature also one step above zero
EngineValues(d) ==
    IF d = D_pressure THEN {10}
    ELSE IF d = D_temperature THEN {Float(100), Float(200), Epsilon}
    ELSE {Float(100), Float(200)}

\* the dimensions of the round-trip tests
EngineDimensions == {D_pressure, D_length, D_temperature, D_mass, D_time}

EngineSystems == UNIT_SYSTEMS

FreshCache(c) == heap[get_request_cache(c)] = EmptyDict

\* the value convert_to_base has just returned goes back through
\* convert_from_base with the same dimension and system
ConvertBack(c) ==
    /\ last.op = "convert_to_base"
    /\ last.kind = "ok"
    /\ last.chain = c
    /\ ConvertFromBase(c, last.val, last.key[2], last.key[3])

NextEngine ==
    \/ \E d \in EngineDimensions, s \in EngineSystems : \E v \in EngineValues(d) :
            FreshCache(1) /\ ConvertToBase(1, v, d, s)
    \/ \E d \in EngineDimensions, s \in EngineSystems : \E v \in EngineValues(d) :
            FreshCache(1) /\ ConvertFromBase(1, v, d, s)
    \/ ConvertBack(1)

SpecEngine == Init /\ [][NextEngine]_vars

\* C19: for a supported dimension, convert_to_base and convert_from_base with
\* BASE_SYSTEM return exactly the value they were given.
C19_BaseSystemIsIdentity ==
    (/\ last.op \in Conversions
     /\ last.key[2] \in EngineDimensions
     /\ last.key[3] = BASE_SYSTEM) =>
        /\ last.kind = "ok"
        /\ last.val = last.key[1]

\* a temperature has come back unchanged from convert_from_base with the base
\* system, where the default system would have changed it
C19_Witness ==
    /\ last.op = "convert_from_base"
    /\ last.key[2] = D_temperature
    /\ last.key[3] = BASE_SYSTEM
    /\ last.val = last.key[1]
    /\ convert_from_base(EmptyDict, last.key[1], D_temperature, DEFAULT_SYSTEM).res.val
            # last.key[1]

Abs(x) == IF x < 0 THEN 0 - x ELSE x

\* a equals v within 1e-4 relative tolerance
WithinRelativeTolerance(a, v) == 10000 * Abs(a - v) <= Abs(v)

\* C20: for a supported dimension d, a supported system s and a value v,
\* convert_from_base(convert_to_base(v, d, s), d, s) equals v within 1e-4
\* relative tolerance.
C20_RoundTripWithinTolerance ==
    (/\ last.op = "convert_from_base"
     /\ last.kind = "ok"
     /\ last.key[2] \in EngineDimensions
     /\ last.key[3] \in UNIT_SYSTEMS) =>
        LET cache == heap[get_request_cache(last.chain)]
        IN  \A k \in DOMAIN cache :
                (/\ k[4] = "to_base"
                 /\ k[2] = last.key[2]
                 /\ k[3] = last.key[3]
                 /\ cache[k] = last.key[1]) =>
                    WithinRelativeTolerance(last.val, k[1])

(***************************************************************************)
(* The worked examples of the tests: one conversion of a chain under its   *)
(* ambient system, called directly and through an Input field.             *)
(***************************************************************************)
\* (value, dimension) of TestConvertToBase
ExampleInputs ==
    {<<14696, D_pressure>>, <<Float(1), D_length>>,
     <<Float(32), D_temperature>>, <<Float(212), D_temperature>>}

\* the raw values of test_temperature_offset_handled_on_input
ExampleRaws == {RawInt(32), RawInt(212)}

\* the Input field of FieldDefs bound to "temperature"
TemperatureInput ==
    CHOOSE f \in FieldIds :
        FieldDefs[f] = [dimension |-> D_temperature, model_type |-> "Input"]

\* def PintGlass(dimension: str, model_type: ModelType): two positional
\* parameters, neither with a default
PintGlassParameters == <<"dimension", "model_type">>

NoType == [dimension |-> <<>>, validator |-> "", serializer |-> ""]

\* the call PintGlass(*args): the arguments are bound to the parameters, and a
\* parameter left without an argument is a TypeError before the body runs
CallPintGlass(args) ==
    IF Len(args) = Len(PintGlassParameters)
    THEN Ok(PintGlass(args[1], args[2]))
    ELSE Raise("TypeError",
               <<"PintGlass() missing 1 required positional argument: 'model_type'">>)

\* a field is declared with PintGlass(*args)
DeclareField(args) ==
    LET r == CallPintGlass(args)
    IN  /\ last' = [op |-> "PintGlass", args |-> args,
                    kind |-> IF r.ok THEN "ok" ELSE r.exc,
                    type |-> IF r.ok THEN r.val ELSE NoType]
        /\ UNCHANGED <<scopeVars, cacheVars, fieldVars>>

\* the declarations of the tests: without a role, and with each role
DeclareArgs == {<<D_pressure>>, <<D_pressure, "Input">>, <<D_pressure, "Output">>}

NextExamples ==
    \/ \E s \in SystemArgs : SetUnitSystem(1, s)
    \/ \E e \in ExampleInputs :
            FreshCache(1) /\ ConvertToBase(1, e[1], e[2], get_unit_system(1))
    \/ \E raw \in ExampleRaws : FreshCache(1) /\ Arrive(1, TemperatureInput, raw)
    \/ \E args \in DeclareArgs : DeclareField(args)

SpecExamples == Init /\ [][NextExamples]_vars

\* val is within tol of target; target and tol count 1/10000, val counts
\* 1/SCALE and is compared on its own grid
Near(val, target, tol) == Abs(val - RoundDiv(target, 10)) <= (tol + 9) \div 10

\* the base value the examples give for (value, dimension) under "imperial"
ExampleHolds(v, d, val) ==
    /\ (v = 14696 /\ d = D_pressure) => Near(val, 1013250000, 1000000)
    /\ (v = Float(1) /\ d = D_length) => Near(val, 3048, 1)
    /\ (v = Float(32) /\ d = D_temperature) => Near(val, 0, 1000)
    /\ (v = Float(212) /\ d = D_temperature) => Near(val, 1000000, 1000)

\* C21: under "imperial", convert_to_base and an Input field give pressure
\* 14.696 -> 101325 +- 100, length 1 -> 0.3048 +- 0.0001, temperature
\* 32 -> 0 +- 0.1 and temperature 212 -> 100 +- 0.1.
C21_ImperialExamples ==
    /\ (/\ last.op = "convert_to_base"
        /\ last.key[3] = K_imperial) =>
            /\ last.kind = "ok"
            /\ ExampleHolds(last.key[1], last.key[2], last.val)
    /\ (/\ last.op = "arrive"
        /\ last.field = TemperatureInput
        /\ get_unit_system(last.chain) = K_imperial) =>
            /\ last.kind = "ok"
            /\ ExampleHolds(PyFloat(last.raw).val, D_temperature, stored.val)

\* the base units the tests name
ExpectedBaseUnit ==
    (D_pressure :> "pascal") @@ (D_length :> "meter") @@ (D_temperature :> "degC")
        @@ (D_mass :> "kilogram") @@ (D_time :> "second")

\* C22: get_base_unit(d) is get_preferred_unit(d, "si"), and is "pascal" for
\* pressure, "meter" for length, "degC" for temperature, "kilogram" for mass
\* and "second" for time.
C22_BaseUnits ==
    (last.op = "get_base_unit" /\ last.dimension \in DOMAIN ExpectedBaseUnit) =>
        /\ last.kind = "ok"
        /\ Ok(last.val) = get_preferred_unit(last.dimension, K_si)
        /\ last.val = ExpectedBaseUnit[last.dimension]

\* float(raw) succeeds
Coercible(raw) == PyFloat(raw).ok

\* after an arrival: a raw value that is no number is refused with ValueError
\* and the engine was not called; an int or a numeric string of a field whose
\* dimension is known is stored as the float of that number
C23_AfterArrival ==
    last.op = "arrive" =>
        /\ ~Coercible(last.raw) =>
              /\ last.kind = "ValueError"
              /\ last.inner = "none"
              /\ last.msg = <<"Cannot convert ">> \o ReprOfRaw(last.raw)
                                \o <<" to a numeric value">>
        /\ (Coercible(last.raw) /\ LastField.dimension \in DOMAIN TARGET_DIMENSIONS_RAW) =>
              /\ last.kind = "ok"
              /\ stored = [has |-> TRUE, field |-> last.field, val |-> last.val]
              /\ last.val =
                    IF LastField.model_type = "Input"
                    THEN convert_to_base(EmptyDict, PyFloat(last.raw).val,
                                         LastField.dimension,
                                         get_unit_system(last.chain)).res.val
                    ELSE PyFloat(last.raw).val

\* a refused arrival writes nothing: the dict and the stored value stay
C23_RefusalWritesNothing ==
    (last'.op = "arrive" /\ ~Coercible(last'.raw)) =>
        /\ heap' = heap
        /\ writer' = writer
        /\ stored' = stored

\* C23: for Input and Output fields, a raw value that cannot be coerced to a
\* number is refused on arrival with ValueError (not UnitConversionError)
\* before the engine is entered, and the cache is unchanged; integers and
\* numeric strings are accepted and stored as floats.
C23_CoercionBeforeEngine == [](C23_AfterArrival) /\ [][C23_RefusalWritesNothing]_vars

\* "abc" has just been refused by an Output field while the dict of the chain
\* holds an entry
C23_Witness ==
    /\ last.op = "arrive"
    /\ last.raw = RawStr(<<"a", "b", "c">>)
    /\ LastField.model_type = "Output"
    /\ last.kind = "ValueError"
    /\ heap[get_request_cache(last.chain)] # EmptyDict

\* C24: PintGlass(dimension) called without a model role builds the Input
\* transform: the declaration succeeds and gives the type that
\* PintGlass(dimension, "Input") gives, whose validator converts to base.
C24_DefaultRoleIsInput ==
    (last.op = "PintGlass" /\ Len(last.args) = 1) =>
        /\ last.kind = "ok"
        /\ last.type = PintGlass(last.args[1], "Input")
        /\ last.type.validator = "validate_to_base"

(***************************************************************************)
(* The request middleware of the two FastAPI applications.  Every request  *)
(* is served in a chain of its own, started with an empty Context; the     *)
(* conversions of call_next are taken in the request's chain (a task       *)
(* started for them copies this chain's Context, which holds the same      *)
(* system and the same dict).                                              *)
(***************************************************************************)
NoHeader == [has |-> FALSE, val |-> <<>>]
Header(v) == [has |-> TRUE, val |-> v]

\* request.headers.get("X-Unit-System", "imperial")
HeadersGet(h, default) == IF h.has THEN h.val ELSE default

\* system = request.headers.get("X-Unit-System", "imperial").lower()
MiddlewareSystem(h) == Lower(HeadersGet(h, K_imperial))

\* the chain has not run the middleware, is inside call_next, has left it
NotEntered(c) == tokens[c] = <<>>
InRequest(c) == Len(tokens[c]) = 1 /\ ~tokens[c][1].used

\* unit_system_middleware up to `await call_next(request)`:
\*     token = set_unit_system(system)
MiddlewareEnter(c, h) ==
    /\ NotEntered(c)
    /\ SetUnitSystem(c, MiddlewareSystem(h))

\* a conversion made by the endpoint under the ambient system
HandlerConverts(c, value, dimension) ==
    /\ c \in alive
    /\ InRequest(c)
    /\ \/ ConvertToBase(c, value, dimension, get_unit_system(c))
       \/ ConvertFromBase(c, value, dimension, get_unit_system(c))

\* unit_system_middleware after call_next: finally: reset_unit_system(token)
MiddlewareExit(c) ==
    /\ c \in alive
    /\ InRequest(c)
    /\ ResetUnitSystem(c, c, 1)

RequestHeaders == {NoHeader, Header(K_SI), Header(K_imperial), Header(K_cgs)}
RequestValues == {Float(1)}
RequestDimensions == {D_length, D_unknown_dim}

NextRequests ==
    \/ \E c \in Chains : StartChain(c)
    \/ \E c \in Chains, h \in RequestHeaders : MiddlewareEnter(c, h)
    \/ \E c \in Chains, v \in RequestValues, d \in RequestDimensions :
            HandlerConverts(c, v, d)
    \/ \E c \in Chains : MiddlewareExit(c)

SpecRequests == Init /\ [][NextRequests]_vars

\* C25: the middleware sets the ambient system from the header and clears the
\* cache before any conversion of the request runs: inside a request the
\* chain reads the header's system, its dict holds only entries the request
\* stored, and no conversion is answered from an entry of another request.
C25_RequestStartsWithClearedCache ==
    /\ \A c \in alive : InRequest(c) =>
            \A k \in DOMAIN heap[get_request_cache(c)] :
                writer[get_request_cache(c)][k] = c
    /\ (last.op \in Conversions /\ last.hit) =>
            writer[get_request_cache(last.chain)][last.key] = last.chain

\* C26: after any sets and restores, with any argument strings and the
\* handles restored in any order, every chain reads a member of
\* SUPPORTED_SYSTEMS that every row of the registry defines.
C26_CurrentSystemIsSupported ==
    \A c \in alive :
        /\ get_unit_system(c) \in SUPPORTED_SYSTEMS
        /\ \A d \in DOMAIN TARGET_DIMENSIONS_RAW :
                get_unit_system(c) \in DOMAIN TARGET_DIMENSIONS_RAW[d]

\* a chain has restored its handles, an outer one before an inner one, and
\* reads "si"
C26_Witness ==
    /\ last.op = "reset_unit_system"
    /\ last.kind = "ok"
    /\ ~nested[last.chain]
    /\ \A i \in 1..Len(tokens[last.chain]) : tokens[last.chain][i].used
    /\ get_unit_system(last.chain) = K_si

\* the conversion the key k names, made with an empty cache
Uncached(k) ==
    IF k[4] = "to_base"
    THEN convert_to_base(EmptyDict, k[1], k[2], k[3]).res
    ELSE convert_from_base(EmptyDict, k[1], k[2], k[3]).res

\* C27: while only the two conversions write the cache, every entry
\* (v, d, s, direction) holds the value the uncached conversion of v for d, s
\* in that direction returns, so a returned value does not depend on the
\* conversions made before, and a call is answered only from an entry of its
\* own direction.
C27_EntriesAreUncachedValues ==
    /\ \A c \in alive :
            \A k \in DOMAIN heap[get_request_cache(c)] :
                /\ k[4] \in {"to_base", "from_base"}
                /\ Uncached(k).ok
                /\ heap[get_request_cache(c)][k] = Uncached(k).val
    /\ (last.op \in Conversions /\ last.kind = "ok") =>
            /\ last.key[4] = DirectionOf(last.op)
            /\ last.val = Uncached(<<last.key[1], last.key[2], last.key[3],
                                     DirectionOf(last.op)>>).val

\* a from-base call has been answered from the cache while the cache holds
\* the to-base entry of the same value, dimension and system with another value
C27_Witness ==
    /\ last.op = "convert_from_base"
    /\ last.hit
    /\ LET cache == heap[get_request_cache(last.chain)]
           other == <<last.key[1], last.key[2], last.key[3], "to_base">>
       IN  /\ other \in DOMAIN cache
           /\ cache[other] # last.val

\* C28: a convert_to_base or convert_from_base call that fails leaves every
\* dict, the cache of every chain and the system every chain reads as they
\* were before the call.
C28_FailedConversionStep ==
    (last'.op \in Conversions /\ last'.kind # "ok") =>
        /\ last'.kind \in {"UnsupportedDimensionError", "UnitConversionError"}
        /\ heap' = heap
        /\ context' = context
        /\ tokens' = tokens

C28_FailureChangesNothing == [][C28_FailedConversionStep]_vars

\* a conversion has failed in a request that reads "si" and whose dict holds
\* an entry
C28_Witness ==
    /\ last.op \in Conversions
    /\ last.kind = "UnsupportedDimensionError"
    /\ get_unit_system(last.chain) = K_si
    /\ heap[get_request_cache(last.chain)] # EmptyDict

\* a call made in the caller's own chain is a run of steps of that chain, and
\* its return is no step.  A set of chain c makes c read the value it stores;
\* c reads the same value until c itself sets or restores; the restore of the
\* innermost handle by a chain that restores in order gives the value read
\* before that handle's set.
C29_SubCallStep ==
    \A c \in alive :
        LET now == ContextVarGet(context'[c], UNIT_CONTEXT)
            own == last'.chain = c
        IN  /\ (own /\ last'.op = "set_unit_system")
                    => now = SetSystemValue(last'.arg)
            /\ ~(own /\ (\/ last'.op = "set_unit_system"
                         \/ last'.op = "reset_unit_system" /\ last'.kind = "ok"))
                    => now = get_unit_system(c)
            /\ (/\ own
                /\ last'.op = "reset_unit_system"
                /\ last'.kind = "ok"
                /\ nested[c]
                /\ last'.tok = <<c, Innermost(c)>>)
                    => now = tokens[c][Innermost(c)].seen

\* C29: a sub-call that runs in its caller's own context and calls
\* set_unit_system without restoring leaves its value as the caller's current
\* system after it returns; the caller's value is back only when the sub-call
\* restores its handle.
C29_UnrestoredSetStays == [][C29_SubCallStep]_vars

\* the caller set "si", the sub-call set "imperial" and restored nothing, and
\* the caller now reads "imperial"
C29_Witness ==
    /\ last.op = "get_unit_system"
    /\ Len(tokens[last.chain]) = 2
    /\ Outstanding(last.chain) = {1, 2}
    /\ tokens[last.chain][2].seen = K_si
    /\ last.val = K_imperial

\* C30: reset_unit_system(h) makes the chain read what it read just before the
\* set that produced h, whatever was set and restored in between: after
\* h1 = set(a), h2 = set(b), restoring h1 and then h2 leaves a.
C30_RestoreGivesValueBeforeItsSet ==
    (last.op = "reset_unit_system" /\ last.kind = "ok")
        => get_unit_system(last.chain) = tokens[last.tok[1]][last.tok[2]].seen

\* h1 was restored before h2, h2 has just been restored, and the chain reads
\* the "si" that h1's set stored, not what it read before h1's set
C30_Witness ==
    /\ last.op = "reset_unit_system"
    /\ last.kind = "ok"
    /\ last.tok = <<last.chain, 2>>
    /\ tokens[last.chain][1].used
    /\ ~nested[last.chain]
    /\ get_unit_system(last.chain) = K_si
    /\ tokens[last.chain][1].seen = K_imperial

====
